---- MODULE Spec2Model ----
(***************************************************************************)
(* The consensus-and-reward settlement engine of the content-evaluation    *)
(* marketplace: submissions (POST /submission), settlement               *)
(* (ConsensusService.processTaskCompletion, called by the submission       *)
(* route, by the periodic sweep and by the admin route) and worker         *)
(* withdrawals (POST /payout), over the ledger store.                      *)
(*                                                                         *)
(* The ledger store is the committed content of the database.  A store     *)
(* transaction ($transaction) buffers its writes in the local state of the *)
(* request that runs it and applies them in one step when it commits; a    *)
(* throw inside the callback discards them.  Requests are asynchronous     *)
(* handlers: each `await` is a point where other requests may run.         *)
(*                                                                         *)
(* Faults: the Payout Dispatcher (SolanaService.sendReward) may throw, and *)
(* a store statement that runs inside a try block with a handler of its    *)
(* own may throw.  At most MaxFaults faults happen in a behaviour; the     *)
(* compensating transaction of a handler is taken to commit.               *)
(***************************************************************************)
EXTENDS Integers, Sequences, FiniteSets, Bags, TLC

\* ------------------------------------------------------------- bounds
NumTasks == 1
NumWorkers == 2
OptionsPerTask == 2
NumProcs == 2
MaxWithdrawals == 2
MaxFaults == 1
ReviewCount == 2
TaskAmount == 3
MaxPayoutInput == 1

\* -------------------------------------------------- program constants
\* MINIMUM_SUBMISSIONS_THRESHOLD = 0.8, as the fraction ThresholdNum / ThresholdDen
ThresholdNum == 4
ThresholdDen == 5
\* IMAGE_THUMBNAIL_MAJORITY_REWARD, VIDEO_MAJORITY_REWARD (environment), and
\* SECOND_PLACE_MULTIPLIER, THIRD_PLACE_MULTIPLIER in hundredths
ImageThumbnailMajorityReward == 100
VideoMajorityReward == 150
SecondPlacePct == 70
ThirdPlacePct == 40

VARIABLES
  tasks,          \* Task rows by id: done, completedAt, reviewCount, amount, serviceType, options
  submissions,    \* Submission rows, in insertion order
  taskResults,    \* TaskResult rows: the task_id of row i
  optionResults,  \* OptionResult rows
  workers,        \* Worker rows by id: pending_amount, locked_amount, total_earned, tasks_completed
  withdrawals,    \* WorkerWithdrawal rows, in insertion order
  dispatched,     \* the sendReward calls of settlements, per (task, worker): amount, ok
  procs,          \* the requests in progress, a bag: position and local variables of each
  now,            \* logical clock behind new Date()
  faults          \* faults injected so far

vars == <<tasks, submissions, taskResults, optionResults, workers, withdrawals,
          dispatched, procs, now, faults>>

store == <<tasks, submissions, taskResults, optionResults, workers, withdrawals>>

Tasks == DOMAIN tasks
Workers == DOMAIN workers

\* The Options of task t, in creation order (ascending id); fixed at creation.
OptionsOf(t) == tasks[t].options
OptionIds(t) == {OptionsOf(t)[i] : i \in 1..Len(OptionsOf(t))}

\* ------------------------------------------------------------ helpers
SeqToSet(s) == {s[i] : i \in 1..Len(s)}

\* s.filter(...), the rows to keep given as a set
SelectSeq2(s, keep) ==
  LET Keep(x) == x \in keep IN SelectSeq(s, Keep)

\* task.submissions: the Submission rows of task t, in insertion order
SubmissionsOf(subs, t) == SelectSeq2(subs, {s \in SeqToSet(subs) : s.task_id = t})

\* -------------------------------------------------------- Pricing Oracle
\* Mutant: the switch without its default branch: a rank outside 1..3 is
\* rewarded like rank 3
calculateWorkerRewardNoDefault(serviceType, rank) ==
  LET baseReward == IF serviceType = "VIDEOS" THEN VideoMajorityReward
                    ELSE ImageThumbnailMajorityReward
  IN CASE rank = 1 -> baseReward
       [] rank = 2 -> (baseReward * SecondPlacePct) \div 100
       [] OTHER -> (baseReward * ThirdPlacePct) \div 100

\* SolanaService.calculateWorkerReward(serviceType, rank)
calculateWorkerReward(serviceType, rank) ==
  LET baseReward == IF serviceType = "VIDEOS" THEN VideoMajorityReward
                    ELSE ImageThumbnailMajorityReward
  IN CASE rank = 1 -> baseReward
       [] rank = 2 -> (baseReward * SecondPlacePct) \div 100
       [] rank = 3 -> (baseReward * ThirdPlacePct) \div 100
       [] OTHER -> 0

\* ------------------------------------------------------ Consensus Engine
\* Mutant: the threshold as a strict bound
MeetsThresholdStrict(currentSubmissions, requiredSubmissions) ==
  currentSubmissions * ThresholdDen > ThresholdNum * requiredSubmissions

\* completionPercentage >= MINIMUM_SUBMISSIONS_THRESHOLD, the quotient
\* currentSubmissions / requiredSubmissions compared as a fraction
MeetsThreshold(currentSubmissions, requiredSubmissions) ==
  currentSubmissions * ThresholdDen >= ThresholdNum * requiredSubmissions

\* ConsensusService.checkTaskCompletion(taskId), on the store content it reads
checkTaskCompletion(t) ==
  LET taskSubs == SubmissionsOf(submissions, t)
  IN [taskId |-> t,
      requiredSubmissions |-> tasks[t].reviewCount,
      currentSubmissions |-> Len(taskSubs),
      isReadyForConsensus |-> MeetsThreshold(Len(taskSubs), tasks[t].reviewCount)]

\* voteCounts[option.id] after the tally: count and voters of option o
VoteCount(taskSubs, o) ==
  LET mine == SelectSeq2(taskSubs, {s \in SeqToSet(taskSubs) : s.option_id = o})
  IN [optionId |-> o,
      count |-> Len(mine),
      voters |-> [i \in 1..Len(mine) |-> mine[i].worker_id]]

RECURSIVE SortByCountDescUnstable(_)
\* Mutant: a sort that puts the last of the entries with the largest count first
SortByCountDescUnstable(s) ==
  IF s = <<>> THEN <<>>
  ELSE LET best == CHOOSE i \in 1..Len(s) :
                     /\ \A j \in 1..Len(s) : s[j].count <= s[i].count
                     /\ \A j \in (i + 1)..Len(s) : s[j].count < s[i].count
           rest == [j \in 1..(Len(s) - 1) |-> IF j < best THEN s[j] ELSE s[j + 1]]
       IN <<s[best]>> \o SortByCountDescUnstable(rest)

RECURSIVE SortByCountDesc(_)
\* Array.prototype.sort((a, b) => b.count - a.count): a stable sort, so the
\* first of the entries with the largest count comes first
SortByCountDesc(s) ==
  IF s = <<>> THEN <<>>
  ELSE LET best == CHOOSE i \in 1..Len(s) :
                     /\ \A j \in 1..Len(s) : s[j].count <= s[i].count
                     /\ \A j \in 1..(i - 1) : s[j].count < s[i].count
           rest == [j \in 1..(Len(s) - 1) |-> IF j < best THEN s[j] ELSE s[j + 1]]
       IN <<s[best]>> \o SortByCountDesc(rest)

RECURSIVE RewardsFrom(_, _, _)
\* the loop of calculateWorkerRewards from position index on: one reward per
\* voter of each of the first three results, rank = index + 1 (0-based index)
RewardsFrom(serviceType, results, index) ==
  IF index > Len(results) \/ index > 3 THEN <<>>
  ELSE LET result == results[index]
           rewardAmount == calculateWorkerReward(serviceType, index)
       IN [i \in 1..Len(result.voters) |->
             [workerId |-> result.voters[i], optionId |-> result.optionId,
              rank |-> index, amount |-> rewardAmount]]
          \o RewardsFrom(serviceType, results, index + 1)

\* Mutant: the reward of a rank shared among the voters of its option
calculateWorkerRewardsSplit(serviceType, consensusResults) ==
  LET full == RewardsFrom(serviceType, consensusResults, 1)
  IN [i \in 1..Len(full) |->
        [full[i] EXCEPT !.amount =
           full[i].amount \div
             Cardinality({j \in 1..Len(full) : full[j].optionId = full[i].optionId})]]

\* ConsensusService.calculateWorkerRewards(task, consensusResults)
calculateWorkerRewards(serviceType, consensusResults) ==
  RewardsFrom(serviceType, consensusResults, 1)

\* Mutant: options with equal counts share a rank
ConsensusOfTiedRanks(t, serviceType, options, taskSubs) ==
  LET counted == [i \in 1..Len(options) |-> VoteCount(taskSubs, options[i])]
      sorted == SortByCountDesc(counted)
      sortedResults ==
        [index \in 1..Len(sorted) |->
           [optionId |-> sorted[index].optionId,
            count |-> sorted[index].count,
            voters |-> sorted[index].voters,
            rank |-> 1 + Cardinality({j \in 1..Len(sorted) :
                                        sorted[j].count > sorted[index].count}),
            percentage |-> (sorted[index].count * 100) \div Len(taskSubs)]]
  IN [taskId |-> t,
      totalSubmissions |-> Len(taskSubs),
      results |-> sortedResults,
      workerRewards |-> calculateWorkerRewards(serviceType, sortedResults)]

\* ConsensusService.calculateConsensus(taskId) on a ready task, from the
\* options and submissions it read: Object.values of voteCounts lists the
\* options by ascending id
ConsensusOf(t, serviceType, options, taskSubs) ==
  LET counted == [i \in 1..Len(options) |-> VoteCount(taskSubs, options[i])]
      \* sortedResults from the sorted array: rank = index + 1 (0-based index)
      Ranked(sorted) ==
        [index \in 1..Len(sorted) |->
           [optionId |-> sorted[index].optionId,
            count |-> sorted[index].count,
            voters |-> sorted[index].voters,
            rank |-> index,
            \* (count / submissions.length) * 100, truncated to an integer here
            percentage |-> (sorted[index].count * 100) \div Len(taskSubs)]]
      Built(sortedResults) ==
        [taskId |-> t,
         totalSubmissions |-> Len(taskSubs),
         results |-> sortedResults,
         workerRewards |-> calculateWorkerRewards(serviceType, sortedResults)]
  \* the sorted array and the results are computed once, like the code's
  \* constants sortedResults and workerRewards
  IN CHOOSE c \in {Built(r) : r \in {Ranked(s) : s \in {SortByCountDesc(counted)}}} : TRUE

calculateConsensus(t) ==
  ConsensusOf(t, tasks[t].serviceType, OptionsOf(t), SubmissionsOf(submissions, t))

\* ------------------------------------------------------------ db helpers
\* getNextTask(userId): the oldest open task the worker has not submitted
\* for (tasks are created in id order); 0 when there is none
getNextTask(w) ==
  LET open == {t \in Tasks :
                 /\ ~tasks[t].done
                 /\ \A i \in 1..Len(submissions) :
                      ~(submissions[i].task_id = t /\ submissions[i].worker_id = w)}
  IN IF open = {} THEN 0 ELSE CHOOSE t \in open : \A u \in open : t <= u

\* ------------------------------------------------------ store constraints
\* Mutant: the TaskResult table without its unique index on task_id
TaskResultUniqueOff(t) == TRUE

\* CREATE UNIQUE INDEX "TaskResult_task_id_key" ON "TaskResult"("task_id")
TaskResultUnique(t) == \A i \in 1..Len(taskResults) : taskResults[i] # t

\* The unique constraint on Submission (task_id, worker_id), whose violation
\* (P2002) the submission route handles
SubmissionUnique(t, w) ==
  \A i \in 1..Len(submissions) :
    ~(submissions[i].task_id = t /\ submissions[i].worker_id = w)

\* ---------------------------------------------------------------- state
NoConsensus == [taskId |-> 0, totalSubmissions |-> 0, results |-> <<>>,
                workerRewards |-> <<>>]

\* The local variables of a request, all unset
Blank == [pc |-> "start", caller |-> "none", worker |-> 0, task |-> 0, option |-> 0,
          amount |-> 0, wid |-> 0, consensus |-> NoConsensus, k |-> 0,
          todo |-> <<>>, resp |-> "none",
          serviceType |-> "none", reviewCount |-> 0, files |-> 0]

\* Task t as POST /upload creates it: open, with its options in id order;
\* odd tasks are image tasks, even tasks video tasks
NewTask(t) ==
  [done |-> FALSE, completedAt |-> 0, reviewCount |-> ReviewCount,
   amount |-> TaskAmount,
   serviceType |-> IF t % 2 = 0 THEN "VIDEOS" ELSE "MARKETING_IMAGES",
   options |-> [i \in 1..OptionsPerTask |-> (t - 1) * OptionsPerTask + i]]

\* Worker w as POST /signin creates it
NewWorker(w) ==
  [pending_amount |-> 0, locked_amount |-> 0, total_earned |-> 0, tasks_completed |-> 0]

Init ==
  /\ tasks = [t \in 1..NumTasks |-> NewTask(t)]
  /\ submissions = <<>>
  /\ taskResults = <<>>
  /\ optionResults = {}
  /\ workers = [w \in 1..NumWorkers |-> NewWorker(w)]
  /\ withdrawals = <<>>
  /\ dispatched = [t \in 1..NumTasks |-> [w \in 1..NumWorkers |-> <<>>]]
  /\ procs = EmptyBag
  /\ now = 0
  /\ faults = 0

\* A request arrives: at most NumProcs requests are in progress
Start(new) ==
  /\ BagCardinality(procs) < NumProcs
  /\ procs' = procs (+) SetToBag({new})

\* Request me takes a step to new
Step(me, new) == procs' = (procs (-) SetToBag({me})) (+) SetToBag({new})

Running == BagToSet(procs)

RECURSIVE CopiesOf(_)
\* how many requests of the bag are in the set rs of request states
CopiesOf(rs) ==
  IF rs = {} THEN 0
  ELSE LET r == CHOOSE x \in rs : TRUE IN CopiesIn(r, procs) + CopiesOf(rs \ {r})

\* the number of requests at position pc
CountAt(pc) == CopiesOf({q \in Running : q.pc = pc})

\* The response of a request, shown until Finish takes the request away
Response(r, t) == [Blank EXCEPT !.pc = "done", !.resp = r, !.task = t]

Finish(me) ==
  /\ me.pc = "done"
  /\ procs' = procs (-) SetToBag({me})
  /\ UNCHANGED <<store, dispatched, now, faults>>

\* ------------------------------------------------------ POST /submission
\* Mutant: the route without the check of the selection against the task's
\* options
SubmitValidateAnyOption(w, t, o) ==
  /\ IF getNextTask(w) = t
     THEN Start([Blank EXCEPT !.pc = "subTx", !.caller = "route", !.worker = w,
                              !.task = t, !.option = o,
                              !.amount = tasks[t].amount \div tasks[t].reviewCount])
     ELSE Start(Response("400", t))
  /\ UNCHANGED <<store, dispatched, now, faults>>

\* lines 219-239: the task must be the worker's next task, the option one of
\* its options; baseReward = floor(task.amount / task.reviewCount)
SubmitValidate(w, t, o) ==
  /\ IF getNextTask(w) = t /\ o \in OptionIds(t)
     THEN Start([Blank EXCEPT !.pc = "subTx", !.caller = "route", !.worker = w,
                              !.task = t, !.option = o,
                              !.amount = tasks[t].amount \div tasks[t].reviewCount])
     ELSE Start(Response("400", t))
  /\ UNCHANGED <<store, dispatched, now, faults>>

\* Mutant: the two writes without the transaction, the credit first: a
\* duplicate still throws P2002 but the worker keeps the credit
SubmitTxCreditFirst(me) ==
  /\ me.pc = "subTx"
  /\ workers' = [workers EXCEPT ![me.worker].pending_amount = @ + me.amount]
  /\ IF SubmissionUnique(me.task, me.worker)
     THEN /\ submissions' = Append(submissions,
                [task_id |-> me.task, worker_id |-> me.worker,
                 option_id |-> me.option, amount |-> me.amount])
          /\ Step(me, [me EXCEPT !.pc = "subCheck"])
     ELSE /\ Step(me, Response("P2002:Submission", me.task))
          /\ UNCHANGED submissions
  /\ UNCHANGED <<tasks, taskResults, optionResults, withdrawals, dispatched, now, faults>>

\* lines 242-264: the transaction creating the Submission and crediting the
\* worker; a duplicate (task, worker) throws P2002 and nothing is written
SubmitTx(me) ==
  /\ me.pc = "subTx"
  /\ IF SubmissionUnique(me.task, me.worker)
     THEN /\ submissions' = Append(submissions,
                [task_id |-> me.task, worker_id |-> me.worker,
                 option_id |-> me.option, amount |-> me.amount])
          /\ workers' = [workers EXCEPT ![me.worker].pending_amount = @ + me.amount]
          /\ Step(me, [me EXCEPT !.pc = "subCheck"])
     ELSE /\ Step(me, Response("P2002:Submission", me.task))
          /\ UNCHANGED <<submissions, workers>>
  /\ UNCHANGED <<tasks, taskResults, optionResults, withdrawals, dispatched, now, faults>>

\* lines 266-273: when the task is ready, processTaskCompletion is started
\* and runs on while the response is sent
SubmitCheck(me) ==
  /\ me.pc = "subCheck"
  /\ IF checkTaskCompletion(me.task).isReadyForConsensus
     THEN Step(me, [Blank EXCEPT !.pc = "consensus", !.caller = "route", !.task = me.task])
     ELSE Step(me, Response("ok", me.task))
  /\ UNCHANGED <<store, dispatched, now, faults>>

\* ------------------------------------- ConsensusService.processTaskCompletion
\* Mutant: the sweep without the try/catch around each task: an error of
\* processTaskCompletion ends the sweep
SettleEndRethrow(me, r) ==
  IF me.caller = "sweep"
  THEN (IF r = "settled"
        THEN [Blank EXCEPT !.pc = "sweepLoop", !.caller = "sweep", !.todo = me.todo]
        ELSE Response("swept", 0))
  ELSE Response(r, me.task)

\* How a processTaskCompletion call ends: the sweep catches the error and
\* goes on with its loop (lines 693-698), the other callers are done
SettleEnd(me, r) ==
  IF me.caller = "sweep"
  THEN [Blank EXCEPT !.pc = "sweepLoop", !.caller = "sweep", !.todo = me.todo]
  ELSE Response(r, me.task)

\* Mutant: settlement transactions of one task that do not wait for each other
TaskRowLockedOff(t) == FALSE

\* Whether a request is inside the settlement transaction of task t: it
\* holds the lock of the Task row from tx.task.update until it ends
TaskRowLocked(t) == \E q \in Running : q.pc = "txRewards" /\ q.task = t

\* Mutant: processTaskCompletion without the readiness check
SettleConsensusNoCheck(me) ==
  /\ me.pc = "consensus"
  /\ Step(me, [me EXCEPT !.pc = "txMark"])
  /\ UNCHANGED <<store, dispatched, now, faults>>

\* line 536: calculateConsensus reads the task with its submissions and
\* throws when the task is not ready
SettleConsensus(me) ==
  /\ me.pc = "consensus"
  /\ IF checkTaskCompletion(me.task).isReadyForConsensus
     THEN Step(me, [me EXCEPT !.pc = "txMark", !.consensus = calculateConsensus(me.task)])
     ELSE Step(me, SettleEnd(me, "NotReady"))
  /\ UNCHANGED <<store, dispatched, now, faults>>

\* lines 539-567: the transaction starts; tx.task.update waits for the row
\* lock, tx.taskResult.create throws on the unique index, the OptionResult
\* rows follow.  The writes stay with the transaction until it commits.
SettleTxMark(me) ==
  /\ me.pc = "txMark"
  /\ ~TaskRowLocked(me.task)
  /\ IF TaskResultUnique(me.task)
     THEN Step(me, [me EXCEPT !.pc = "txRewards", !.k = 0])
     ELSE Step(me, SettleEnd(me, "P2002:TaskResult"))
  /\ UNCHANGED <<store, dispatched, now, faults>>

\* lines 571-600, one turn of the loop: tx.worker.update (kept with the
\* transaction), then sendReward to the worker's address.  When sendReward
\* throws the callback throws and the transaction is rolled back.
SettleTxReward(me) ==
  LET reward == me.consensus.workerRewards[me.k + 1] IN
  /\ me.pc = "txRewards"
  /\ me.k < Len(me.consensus.workerRewards)
  /\ \/ /\ dispatched' = [dispatched EXCEPT ![me.task][reward.workerId] =
                            Append(@, [amount |-> reward.amount, ok |-> TRUE])]
        /\ Step(me, [me EXCEPT !.k = me.k + 1])
        /\ UNCHANGED faults
     \/ /\ faults < MaxFaults
        /\ faults' = faults + 1
        /\ Step(me, SettleEnd(me, "PayoutFailed"))
        /\ dispatched' = [dispatched EXCEPT ![me.task][reward.workerId] =
                            Append(@, [amount |-> reward.amount, ok |-> FALSE])]
  /\ UNCHANGED <<store, now>>

\* Mutant: the task is marked done with the client instead of tx, so the
\* mark outlives the rollback
SettleTxThrowDirty(me) ==
  /\ me.pc = "txRewards"
  /\ faults < MaxFaults
  /\ faults' = faults + 1
  /\ now' = now + 1
  /\ tasks' = [tasks EXCEPT ![me.task].done = TRUE, ![me.task].completedAt = now + 1]
  /\ Step(me, SettleEnd(me, "StoreError"))
  /\ UNCHANGED <<submissions, taskResults, optionResults, workers, withdrawals, dispatched>>

\* A store statement of the callback throws (a failed write, the
\* transaction's timeout): the transaction is rolled back
SettleTxThrow(me) ==
  /\ me.pc = "txRewards"
  /\ faults < MaxFaults
  /\ faults' = faults + 1
  /\ Step(me, SettleEnd(me, "StoreError"))
  /\ UNCHANGED <<store, dispatched, now>>

RECURSIVE CreditRewards(_, _)
\* the tx.worker.update of every reward, in order
CreditRewards(ws, rewards) ==
  IF rewards = <<>> THEN ws
  ELSE LET reward == Head(rewards) IN
       CreditRewards(
         [ws EXCEPT ![reward.workerId].pending_amount = @ + reward.amount,
                    ![reward.workerId].total_earned = @ + reward.amount,
                    ![reward.workerId].tasks_completed = @ + 1],
         Tail(rewards))

\* The OptionResult rows of a consensus under TaskResult row id
OptionResultRows(id, consensus) ==
  {[task_result_id |-> id,
    option_id |-> consensus.results[i].optionId,
    vote_count |-> consensus.results[i].count,
    rank |-> consensus.results[i].rank,
    percentage |-> consensus.results[i].percentage] : i \in 1..Len(consensus.results)}

\* Mutant: the commit without the TaskResult and OptionResult rows
SettleTxCommitNoResult(me) ==
  /\ me.pc = "txRewards"
  /\ me.k = Len(me.consensus.workerRewards)
  /\ now' = now + 1
  /\ tasks' = [tasks EXCEPT ![me.task].done = TRUE, ![me.task].completedAt = now + 1]
  /\ workers' = CreditRewards(workers, me.consensus.workerRewards)
  /\ Step(me, SettleEnd(me, "settled"))
  /\ UNCHANGED <<submissions, taskResults, optionResults, withdrawals, dispatched, faults>>

\* line 608: the callback returns and the transaction commits all its writes
SettleTxCommit(me) ==
  /\ me.pc = "txRewards"
  /\ me.k = Len(me.consensus.workerRewards)
  /\ now' = now + 1
  /\ tasks' = [tasks EXCEPT ![me.task].done = TRUE, ![me.task].completedAt = now + 1]
  /\ taskResults' = Append(taskResults, me.task)
  /\ optionResults' = optionResults \cup OptionResultRows(Len(taskResults) + 1, me.consensus)
  /\ workers' = CreditRewards(workers, me.consensus.workerRewards)
  /\ Step(me, SettleEnd(me, "settled"))
  /\ UNCHANGED <<submissions, withdrawals, dispatched, faults>>

\* POST /admin/force-consensus/:taskId
AdminForceConsensus(t) ==
  /\ Start([Blank EXCEPT !.pc = "consensus", !.caller = "admin", !.task = t])
  /\ UNCHANGED <<store, dispatched, now, faults>>

\* ---------------------------------------- ConsensusService.processReadyTasks
RECURSIVE ReadyOpenTasksDone(_)
\* Mutant: the sweep's findMany with the filter done: true
ReadyOpenTasksDone(t) ==
  IF t \notin Tasks THEN <<>>
  ELSE (IF tasks[t].done
           /\ MeetsThreshold(Len(SubmissionsOf(submissions, t)), tasks[t].reviewCount)
        THEN <<t>> ELSE <<>>) \o ReadyOpenTasksDone(t + 1)

RECURSIVE ReadyOpenTasks(_)
\* the open tasks of the sweep's findMany that meet the threshold, from task t on
ReadyOpenTasks(t) ==
  IF t \notin Tasks THEN <<>>
  ELSE (IF ~tasks[t].done
           /\ MeetsThreshold(Len(SubmissionsOf(submissions, t)), tasks[t].reviewCount)
        THEN <<t>> ELSE <<>>) \o ReadyOpenTasks(t + 1)

\* lines 680-692: the scheduler's call reads the open tasks with their submissions
SweepStart ==
  /\ Start([Blank EXCEPT !.pc = "sweepLoop", !.caller = "sweep", !.todo = ReadyOpenTasks(1)])
  /\ UNCHANGED <<store, dispatched, now, faults>>

\* lines 689-700: the next ready task of the loop, or the end of the sweep
SweepNext(me) ==
  /\ me.pc = "sweepLoop"
  /\ IF me.todo = <<>>
     THEN Step(me, Response("swept", 0))
     ELSE Step(me, [Blank EXCEPT !.pc = "consensus", !.caller = "sweep",
                                 !.task = Head(me.todo), !.todo = Tail(me.todo)])
  /\ UNCHANGED <<store, dispatched, now, faults>>

\* ---------------------------------------------------------- POST /payout
\* Mutant: the request without the check of the amount against pending
PayoutRequestNoCheck(w, amount) ==
  LET worker == workers[w]
      payoutAmount == IF amount # 0 THEN amount ELSE worker.pending_amount
  IN
  /\ Len(withdrawals) + CountAt("payTx") < MaxWithdrawals
  /\ Start(IF payoutAmount <= 0 THEN Response("NoFunds", 0)
           ELSE [Blank EXCEPT !.pc = "payTx", !.caller = "route", !.worker = w,
                              !.amount = payoutAmount])
  /\ UNCHANGED <<store, dispatched, now, faults>>

\* lines 399-425: the worker row is read and the amount is checked against
\* it; amount 0 stands for a request without an amount (all of pending)
PayoutRequest(w, amount) ==
  LET worker == workers[w]
      payoutAmount == IF amount # 0 THEN amount ELSE worker.pending_amount
  IN
  /\ Len(withdrawals) + CountAt("payTx") < MaxWithdrawals
  /\ Start(IF payoutAmount <= 0 THEN Response("NoFunds", 0)
           ELSE IF payoutAmount > worker.pending_amount
           THEN Response("InsufficientBalance", 0)
           ELSE [Blank EXCEPT !.pc = "payTx", !.caller = "route", !.worker = w,
                              !.amount = payoutAmount])
  /\ UNCHANGED <<store, dispatched, now, faults>>

\* lines 428-453: the transaction moving the amount from pending to locked
\* and creating the Withdrawal in Processing
PayoutTx(me) ==
  /\ me.pc = "payTx"
  /\ workers' = [workers EXCEPT ![me.worker].pending_amount = @ - me.amount,
                                ![me.worker].locked_amount = @ + me.amount]
  /\ withdrawals' = Append(withdrawals,
       [workerId |-> me.worker, amount |-> me.amount, signature |-> "pending",
        status |-> "Processing"])
  /\ Step(me, [me EXCEPT !.pc = "paySend", !.wid = Len(withdrawals) + 1])
  /\ UNCHANGED <<tasks, submissions, taskResults, optionResults, dispatched, now, faults>>

\* line 457: sendReward returns a signature or throws
PayoutSend(me) ==
  /\ me.pc = "paySend"
  /\ \/ /\ Step(me, [me EXCEPT !.pc = "payMark"])
        /\ UNCHANGED faults
     \/ /\ faults < MaxFaults
        /\ faults' = faults + 1
        /\ Step(me, [me EXCEPT !.pc = "payRevert"])
  /\ UNCHANGED <<store, dispatched, now>>

\* lines 460-467: the Withdrawal becomes Success with the signature
PayoutMark(me) ==
  /\ me.pc = "payMark"
  /\ withdrawals' = [withdrawals EXCEPT ![me.wid].status = "Success",
                                        ![me.wid].signature = "signature"]
  /\ Step(me, [me EXCEPT !.pc = "payUnlock"])
  /\ UNCHANGED <<tasks, submissions, taskResults, optionResults, workers, dispatched,
                 now, faults>>

\* Mutant: the request ends after marking the Withdrawal, without taking
\* the amount out of locked
PayoutUnlockSkipped(me) ==
  /\ me.pc = "payUnlock"
  /\ Step(me, Response("ok", 0))
  /\ UNCHANGED <<store, dispatched, now, faults>>

\* lines 470-477: the amount leaves locked; the statement is still inside
\* the try block, so when it throws the catch block runs
PayoutUnlock(me) ==
  /\ me.pc = "payUnlock"
  /\ \/ /\ workers' = [workers EXCEPT ![me.worker].locked_amount = @ - me.amount]
        /\ Step(me, Response("ok", 0))
        /\ UNCHANGED faults
     \/ /\ faults < MaxFaults
        /\ faults' = faults + 1
        /\ Step(me, [me EXCEPT !.pc = "payRevert"])
        /\ UNCHANGED workers
  /\ UNCHANGED <<tasks, submissions, taskResults, optionResults, withdrawals, dispatched, now>>

\* Mutant: the catch block marks the Withdrawal and forgets the balances
PayoutRevertNoRefund(me) ==
  /\ me.pc = "payRevert"
  /\ withdrawals' = [withdrawals EXCEPT ![me.wid].status = "Failure"]
  /\ Step(me, Response("TransactionFailed", 0))
  /\ UNCHANGED <<tasks, submissions, taskResults, optionResults, workers, dispatched,
                 now, faults>>

\* Mutant: the catch block also takes the amount off total_earned
PayoutRevertClawback(me) ==
  /\ me.pc = "payRevert"
  /\ withdrawals' = [withdrawals EXCEPT ![me.wid].status = "Failure"]
  /\ workers' = [workers EXCEPT ![me.worker].pending_amount = @ + me.amount,
                                ![me.worker].locked_amount = @ - me.amount,
                                ![me.worker].total_earned = @ - me.amount]
  /\ Step(me, Response("TransactionFailed", 0))
  /\ UNCHANGED <<tasks, submissions, taskResults, optionResults, dispatched, now, faults>>

\* Mutant: the catch block writes pending back as a value, the amount the
\* request took out of it, instead of incrementing it
PayoutRevertSnapshot(me) ==
  /\ me.pc = "payRevert"
  /\ withdrawals' = [withdrawals EXCEPT ![me.wid].status = "Failure"]
  /\ workers' = [workers EXCEPT ![me.worker].pending_amount = me.amount,
                                ![me.worker].locked_amount = @ - me.amount]
  /\ Step(me, Response("TransactionFailed", 0))
  /\ UNCHANGED <<tasks, submissions, taskResults, optionResults, dispatched, now, faults>>

\* lines 479-508, the catch block: one transaction sets the Withdrawal to
\* Failure and moves the amount back from locked to pending
PayoutRevert(me) ==
  /\ me.pc = "payRevert"
  /\ withdrawals' = [withdrawals EXCEPT ![me.wid].status = "Failure"]
  /\ workers' = [workers EXCEPT ![me.worker].pending_amount = @ + me.amount,
                                ![me.worker].locked_amount = @ - me.amount]
  /\ Step(me, Response("TransactionFailed", 0))
  /\ UNCHANGED <<tasks, submissions, taskResults, optionResults, dispatched, now, faults>>

\* ------------------------------------------------------------------ Next
Next ==
  \/ \E w \in Workers, t \in Tasks : \E o \in OptionIds(t) : SubmitValidate(w, t, o)
  \/ \E t \in Tasks : AdminForceConsensus(t)
  \/ SweepStart
  \/ \E w \in Workers, amount \in 0..MaxPayoutInput : PayoutRequest(w, amount)
  \/ \E me \in Running : SubmitTx(me)
  \/ \E me \in Running : SubmitCheck(me)
  \/ \E me \in Running : SettleConsensus(me)
  \/ \E me \in Running : SettleTxMark(me)
  \/ \E me \in Running : SettleTxReward(me)
  \/ \E me \in Running : SettleTxThrow(me)
  \/ \E me \in Running : SettleTxCommit(me)
  \/ \E me \in Running : SweepNext(me)
  \/ \E me \in Running : PayoutTx(me)
  \/ \E me \in Running : PayoutSend(me)
  \/ \E me \in Running : PayoutMark(me)
  \/ \E me \in Running : PayoutUnlock(me)
  \/ \E me \in Running : PayoutRevert(me)
  \/ \E me \in Running : Finish(me)

Spec == Init /\ [][Next]_vars

\* ================================================================ claims
RECURSIVE SumOver(_, _)
\* the sum of f[x] over the finite set S
SumOver(S, f) ==
  IF S = {} THEN 0
  ELSE LET x == CHOOSE y \in S : TRUE IN f[x] + SumOver(S \ {x}, f)

\* the TaskResult rows (ids) and the OptionResult rows of task t
ResultIdsOf(t) == {i \in 1..Len(taskResults) : taskResults[i] = t}
HasResult(t) == ResultIdsOf(t) # {}
RowsOf(t) == {r \in optionResults : r.task_result_id \in ResultIdsOf(t)}

\* the reward the stored Result of task t gives worker w: that of the rank of
\* the option w voted for
RewardIn(t, w) ==
  LET mine == {r \in RowsOf(t) :
                 \E i \in 1..Len(submissions) :
                   /\ submissions[i].task_id = t
                   /\ submissions[i].worker_id = w
                   /\ submissions[i].option_id = r.option_id}
  IN SumOver(mine, [r \in mine |-> calculateWorkerReward(tasks[t].serviceType, r.rank)])

\* every stored Result counted all the submissions its task has now
NoLateSubmission ==
  \A t \in Tasks :
    HasResult(t) =>
      SumOver(RowsOf(t), [r \in RowsOf(t) |-> r.vote_count])
        = Len(SubmissionsOf(submissions, t))

\* the per-submission credits of worker w
SubmissionCredits(w) ==
  LET mine == {i \in 1..Len(submissions) : submissions[i].worker_id = w}
  IN SumOver(mine, [i \in mine |-> submissions[i].amount])

\* the amounts that have left the ledger for worker w: the Withdrawals in
\* Success whose request has finished
PaidOut(w) ==
  LET gone == {i \in 1..Len(withdrawals) :
                 /\ withdrawals[i].workerId = w
                 /\ withdrawals[i].status = "Success"
                 /\ \A q \in Running : q.wid # i}
  IN SumOver(gone, [i \in gone |-> withdrawals[i].amount])

\* what the stored Results give in total, and to how many voters
TotalFromResults ==
  SumOver(optionResults,
          [r \in optionResults |->
             r.vote_count * calculateWorkerReward(
                              tasks[taskResults[r.task_result_id]].serviceType, r.rank)])

RewardedVotes ==
  SumOver(optionResults, [r \in optionResults |-> IF r.rank <= 3 THEN r.vote_count ELSE 0])

\* request me takes the step
Moved(me) == CopiesIn(me, procs') < CopiesIn(me, procs)
\* the step puts a request in state new
Arrived(new) == CopiesIn(new, procs') > CopiesIn(new, procs)

InSettlement(me) == me.pc \in {"consensus", "txMark", "txRewards"}

\* C1: once task t is settled, a processTaskCompletion(t) call never gets
\* into the transaction's writes: each of its steps leaves the whole store
\* (Task, TaskResult, OptionResult and Worker rows) as it is, and at the
\* TaskResult insert it ends with the unique-index error.
C1_SettledTaskRejectsSettlement ==
  [][\A me \in Running :
       (Moved(me) /\ InSettlement(me) /\ tasks[me.task].done) =>
          /\ store' = store
          /\ me.pc # "txRewards"
          /\ me.pc = "txMark" => Arrived(SettleEnd(me, "P2002:TaskResult"))]_vars

\* C1 witness: a call on a settled, rewarded task has ended with the error
C1_Witness ==
  \E me \in Running :
    /\ me.pc = "done" /\ me.resp = "P2002:TaskResult"
    /\ tasks[me.task].done
    /\ \E w \in Workers : workers[w].total_earned > 0

\* C2: whatever the interleaving of processTaskCompletion calls, a task has
\* at most one TaskResult (one call committed), and every worker holds the
\* reward of each settled task once: total_earned and tasks_completed are
\* those of the stored Results, and pending + locked is the submission
\* credits plus total_earned minus what was paid out.
C2_AtMostOneCommit ==
  /\ \A t \in Tasks : Cardinality(ResultIdsOf(t)) <= 1
  /\ NoLateSubmission =>
       \A w \in Workers :
         /\ workers[w].total_earned = SumOver(Tasks, [t \in Tasks |-> RewardIn(t, w)])
         /\ workers[w].tasks_completed
              = SumOver(Tasks, [t \in Tasks |-> IF RewardIn(t, w) > 0 THEN 1 ELSE 0])
         /\ workers[w].pending_amount + workers[w].locked_amount
              = SubmissionCredits(w) + workers[w].total_earned - PaidOut(w)

\* C2 witness: one call has committed task t while another call on t, past
\* its consensus, waits at the transaction
C2_Witness ==
  \E me \in Running, q \in Running :
    /\ me.pc = "txMark" /\ me.consensus.taskId = me.task
    /\ q.pc = "done" /\ q.resp = "settled" /\ q.task = me.task
    /\ tasks[me.task].done
    /\ \E w \in Workers : workers[w].tasks_completed = 1

\* C3: every task is either open, with no TaskResult, no OptionResult and no
\* reward credited, or done, with one TaskResult, one OptionResult per Option
\* and its rewards credited: the credits of all workers add up to what the
\* stored Results give.
C3_SettlementAllOrNothing ==
  /\ \A t \in Tasks :
       \/ /\ ~tasks[t].done /\ tasks[t].completedAt = 0
          /\ ~HasResult(t) /\ RowsOf(t) = {}
       \/ /\ tasks[t].done /\ tasks[t].completedAt > 0
          /\ Cardinality(ResultIdsOf(t)) = 1
          /\ {r.option_id : r \in RowsOf(t)} = OptionIds(t)
          /\ Cardinality(RowsOf(t)) = Len(OptionsOf(t))
  /\ SumOver(Workers, [w \in Workers |-> workers[w].total_earned]) = TotalFromResults
  /\ SumOver(Workers, [w \in Workers |-> workers[w].tasks_completed]) = RewardedVotes

\* C3 witness: a settlement transaction that had sent a reward was rolled
\* back, and the task is open with nothing credited
C3_Witness ==
  \E t \in Tasks, w \in Workers :
    /\ \E i \in 1..Len(dispatched[t][w]) : dispatched[t][w][i].ok
    /\ \E q \in Running : q.pc = "done" /\ q.task = t
                          /\ q.resp \in {"PayoutFailed", "StoreError"}
    /\ ~TaskRowLocked(t)
    /\ ~tasks[t].done
    /\ \A v \in Workers : workers[v].total_earned = 0

\* the calls of sendReward that threw, among those made for task t's reward
\* to worker w
FailedDispatches(t, w) ==
  {i \in 1..Len(dispatched[t][w]) : ~dispatched[t][w][i].ok}

\* C4 as the specification states it: once sendReward has failed for a
\* rewarded worker of task t, the task is closed with its Result and the
\* credits of every rewarded worker, and when the call is over a payout has
\* been attempted for each of them.
C4_PayoutFailureKeepsSettlement ==
  \A t \in Tasks, w \in Workers :
    FailedDispatches(t, w) # {} =>
      /\ tasks[t].done /\ HasResult(t)
      /\ \A v \in Workers : RewardIn(t, v) > 0 => workers[v].total_earned >= RewardIn(t, v)
      /\ ~TaskRowLocked(t) =>
           \A v \in Workers : RewardIn(t, v) > 0 => dispatched[t][v] # <<>>

\* C5 as the specification states it: whenever sendReward has been called
\* for a reward of task t, the settlement of t is committed (the task is
\* done and has its Result).
C5_DispatchOnlyAfterCommit ==
  \A t \in Tasks, w \in Workers :
    dispatched[t][w] # <<>> => tasks[t].done /\ HasResult(t)

\* C6 as the specification states it: over all settlement attempts of task
\* t, sendReward is called at most once per worker, and when t is settled
\* exactly once for each rewarded worker, with the reward amount.
C6_DispatchExactlyOnce ==
  \A t \in Tasks, w \in Workers :
    /\ Len(dispatched[t][w]) <= 1
    /\ (tasks[t].done /\ NoLateSubmission) =>
         IF RewardIn(t, w) > 0
         THEN /\ Len(dispatched[t][w]) = 1
              /\ dispatched[t][w][1].amount = RewardIn(t, w)
         ELSE dispatched[t][w] = <<>>

\* C7 as the specification states it: no balance is ever negative.
C7_BalancesNonNegative ==
  \A w \in Workers :
    workers[w].pending_amount >= 0 /\ workers[w].locked_amount >= 0

\* the amount of worker w the payout requests in progress hold in locked
LockedInFlight(w) ==
  LET held == {i \in 1..Len(withdrawals) :
                 /\ withdrawals[i].workerId = w
                 /\ \E q \in Running : q.wid = i}
  IN SumOver(held, [i \in held |-> withdrawals[i].amount])

\* C8: a payout request whose sendReward threw leaves nothing behind but the
\* Withdrawal in Failure: a Withdrawal that no request works on and that got
\* no signature is in Failure, locked holds only the amounts of the requests
\* in progress, and pending is the worker's credits minus what was paid out
\* and what those requests hold, so a failed Withdrawal counts for nothing.
C8_FailedWithdrawalNetZero ==
  /\ \A i \in 1..Len(withdrawals) :
       (withdrawals[i].signature = "pending" /\ \A q \in Running : q.wid # i) =>
          withdrawals[i].status = "Failure"
  /\ \A w \in Workers :
       /\ workers[w].locked_amount = LockedInFlight(w)
       /\ workers[w].pending_amount
            = SubmissionCredits(w) + workers[w].total_earned
                - PaidOut(w) - LockedInFlight(w)

\* C8 witness: a worker asked for all of pending, sendReward threw, the
\* request answered with the failure and the worker has the amount back in
\* pending, nothing in locked, and the Withdrawal in Failure
C8_Witness ==
  \E w \in Workers, i \in 1..Len(withdrawals) :
    /\ withdrawals[i].workerId = w
    /\ withdrawals[i].status = "Failure" /\ withdrawals[i].signature = "pending"
    /\ Len(withdrawals) = 1
    /\ \E q \in Running : q.pc = "done" /\ q.resp = "TransactionFailed"
    /\ workers[w].pending_amount = withdrawals[i].amount
    /\ workers[w].pending_amount = SubmissionCredits(w)
    /\ workers[w].locked_amount = 0

\* C9 as the specification states it: a Withdrawal is created in Processing,
\* leaves Processing for Success or Failure, and a Withdrawal in Success or
\* Failure keeps its status in every step.
C9_WithdrawalTerminalOnce ==
  [][/\ \A i \in 1..Len(withdrawals') :
          i > Len(withdrawals) => withdrawals'[i].status = "Processing"
     /\ \A i \in 1..Len(withdrawals) :
          /\ i <= Len(withdrawals')
          /\ withdrawals[i].status = "Processing" =>
               withdrawals'[i].status \in {"Processing", "Success", "Failure"}
          /\ withdrawals[i].status \in {"Success", "Failure"} =>
               withdrawals'[i].status = withdrawals[i].status]_vars

\* the Submissions of worker w for task t
SubmissionsBy(t, w) ==
  {i \in 1..Len(submissions) :
     submissions[i].task_id = t /\ submissions[i].worker_id = w}

\* C10: there is never more than one Submission of a worker for a task, and
\* the step of POST /submission that finds the worker's Submission already
\* there ends with the constraint violation and writes nothing: no
\* Submission (no vote, the same count for the task) and no credit.
C10_OneSubmissionPerTaskWorker ==
  /\ [](\A t \in Tasks, w \in Workers : Cardinality(SubmissionsBy(t, w)) <= 1)
  /\ [][\A me \in Running :
          (Moved(me) /\ me.pc = "subTx" /\ SubmissionsBy(me.task, me.worker) # {}) =>
             /\ Arrived(Response("P2002:Submission", me.task))
             /\ store' = store]_vars

\* C10 witness: of two concurrent requests of a worker for the task one has
\* created the Submission and the other has ended with the violation; the
\* worker holds the one credit
C10_Witness ==
  \E q \in Running, w \in Workers :
    /\ q.pc = "done" /\ q.resp = "P2002:Submission"
    /\ Cardinality(SubmissionsBy(q.task, w)) = 1
    /\ Len(submissions) = 1
    /\ workers[w].pending_amount = SubmissionCredits(w)
    /\ workers[w].pending_amount > 0

\* C11: in every state a task is done exactly when a TaskResult row exists
\* for it.
C11_DoneIffResult ==
  \A t \in Tasks : tasks[t].done <=> (\E i \in 1..Len(taskResults) : taskResults[i] = t)

\* C11 witness: a settlement has committed: the task is done, stamped, and
\* has its one TaskResult row
C11_Witness ==
  \E t \in Tasks :
    /\ tasks[t].done /\ tasks[t].completedAt = now
    /\ Len(taskResults) = 1 /\ taskResults[1] = t
    /\ \E q \in Running : q.pc = "done" /\ q.resp = "settled" /\ q.task = t

\* ------------------------------------------------ the threshold rule alone
\* The review counts the rule is examined for
RequiredCases == {1, 2, 100, 500}

\* A store with one open task of review count required and current
\* Submissions, of workers 1..current for the task's first option, each
\* credited the base reward of 1 (the task's amount is its review count)
ThresholdStore(required, current) ==
  /\ tasks = <<[NewTask(1) EXCEPT !.reviewCount = required, !.amount = required]>>
  /\ submissions = [i \in 1..current |->
                      [task_id |-> 1, worker_id |-> i, option_id |-> 1, amount |-> 1]]
  /\ workers = [w \in 1..current |-> [NewWorker(w) EXCEPT !.pending_amount = 1]]
  /\ dispatched = <<[w \in 1..current |-> <<>>]>>

InitThreshold ==
  /\ \E required \in RequiredCases : \E current \in 0..required :
       ThresholdStore(required, current)
  /\ taskResults = <<>>
  /\ optionResults = {}
  /\ withdrawals = <<>>
  /\ procs = EmptyBag
  /\ now = 0
  /\ faults = 0

\* The callers of the rule: processTaskCompletion up to its readiness check
\* (from the admin route and from the sweep) and the sweep's own filter
NextThreshold ==
  \/ \E t \in Tasks : AdminForceConsensus(t)
  \/ SweepStart
  \/ \E me \in Running : SweepNext(me)
  \/ \E me \in Running : SettleConsensus(me)
  \/ \E me \in Running : Finish(me)

SpecThreshold == InitThreshold /\ [][NextThreshold]_vars

\* the least number of submissions that is 80% of required, for the cases
MinReady(required) ==
  CASE required = 1 -> 1
    [] required = 2 -> 2
    [] required = 100 -> 80
    [] required = 500 -> 400

\* C12: for review counts 1, 2, 100, 500 and every number of submissions up
\* to the review count, checkTaskCompletion says ready exactly when 5 *
\* current >= 4 * required, that is from 1, 2, 80 and 400 submissions on;
\* the sweep lists the task under the same condition, a processTaskCompletion
\* call gets past the readiness check only then and ends with NotReady only
\* otherwise.
C12_ReadyIffEightyPercent ==
  \A t \in Tasks :
    LET required == tasks[t].reviewCount
        current == Len(SubmissionsOf(submissions, t))
        ready == 5 * current >= 4 * required
    IN /\ required \in RequiredCases /\ current \in 0..required
       /\ checkTaskCompletion(t).isReadyForConsensus <=> ready
       /\ ready <=> current >= MinReady(required)
       /\ (t \in SeqToSet(ReadyOpenTasks(1))) <=> ready
       /\ \A q \in Running :
            /\ (q.pc = "txMark" /\ q.task = t) => ready
            /\ (q.caller = "sweep" /\ q.pc = "consensus" /\ q.task = t) => ready
            /\ (q.pc = "done" /\ q.resp = "NotReady" /\ q.task = t) => ~ready

\* C12 witness: at the boundary, 400 of 500, a processTaskCompletion call of
\* the sweep is past the readiness check
C12_Witness ==
  /\ tasks[1].reviewCount = 500 /\ Len(submissions) = 400
  /\ \E q \in Running : q.pc = "txMark" /\ q.caller = "sweep" /\ q.task = 1
                        /\ q.consensus.totalSubmissions = 400

\* --------------------------------------- consensus over given submissions
\* Up to MaxVotes submissions for a task of ConsensusOptions options
MaxVotes == 5
ConsensusOptions == 4

\* A store with one open task of the service type and review count given,
\* and the Submissions votes[1], votes[2], ... in arrival order, the i-th of
\* worker i, each credited the base reward of 1; MaxVotes workers exist
ConsensusStore(serviceType, required, votes) ==
  /\ tasks = <<[NewTask(1) EXCEPT !.serviceType = serviceType,
                                  !.reviewCount = required,
                                  !.amount = required,
                                  !.options = [i \in 1..ConsensusOptions |-> i]]>>
  /\ submissions = [i \in 1..Len(votes) |->
                      [task_id |-> 1, worker_id |-> i, option_id |-> votes[i],
                       amount |-> 1]]
  /\ workers = [w \in 1..MaxVotes |->
                  [NewWorker(w) EXCEPT !.pending_amount = IF w <= Len(votes) THEN 1 ELSE 0]]
  /\ dispatched = <<[w \in 1..MaxVotes |-> <<>>]>>

InitConsensus ==
  /\ \E serviceType \in {"MARKETING_IMAGES", "VIDEOS"}, required \in 1..MaxVotes :
       \E n \in 0..required : \E votes \in [1..n -> 1..ConsensusOptions] :
         ConsensusStore(serviceType, required, votes)
  /\ taskResults = <<>>
  /\ optionResults = {}
  /\ withdrawals = <<>>
  /\ procs = EmptyBag
  /\ now = 0
  /\ faults = MaxFaults

\* processTaskCompletion on the store as given, the dispatcher not failing
NextConsensus ==
  \/ \E t \in Tasks : AdminForceConsensus(t)
  \/ \E me \in Running : SettleConsensus(me)
  \/ \E me \in Running : SettleTxMark(me)
  \/ \E me \in Running : SettleTxReward(me)
  \/ \E me \in Running : SettleTxCommit(me)
  \/ \E me \in Running : Finish(me)

SpecConsensus == InitConsensus /\ [][NextConsensus]_vars

\* the rewards of ranks 1, 2, 3 with the configured amounts
ExpectedReward(serviceType) ==
  IF serviceType = "VIDEOS" THEN <<150, 105, 60>> ELSE <<100, 70, 40>>

\* the OptionResult row of the option worker w voted for in task t, if any
VotedRows(t, w) ==
  {r \in RowsOf(t) : \E i \in SubmissionsBy(t, w) : submissions[i].option_id = r.option_id}

\* what the settlement of task t owes worker w
ExpectedCredit(t, w) ==
  IF VotedRows(t, w) = {} THEN 0
  ELSE LET r == CHOOSE x \in VotedRows(t, w) : TRUE
       IN IF r.rank <= 3 THEN ExpectedReward(tasks[t].serviceType)[r.rank] ELSE 0

\* every worker holds the reward of the rank of the option they voted for,
\* once the task is settled, and the rewards add up to the votes of each of
\* the first three ranks times the rank's reward
PerVoterCredits(t) ==
  LET paying == {r \in RowsOf(t) : r.rank <= 3} IN
  /\ \A w \in Workers :
       LET credit == IF tasks[t].done THEN ExpectedCredit(t, w) ELSE 0
       IN /\ workers[w].total_earned = credit
          /\ workers[w].pending_amount = SubmissionCredits(w) + credit
          /\ workers[w].tasks_completed = IF credit > 0 THEN 1 ELSE 0
  /\ SumOver(Workers, [w \in Workers |-> workers[w].total_earned])
       = SumOver(paying,
           [r \in paying |->
              r.vote_count * ExpectedReward(tasks[t].serviceType)[r.rank]])

\* the image task t is settled with 3 votes on rank 1, 1 on rank 2, 1 on rank 3
SettledThreeOneOne(t) ==
  /\ tasks[t].serviceType = "MARKETING_IMAGES"
  /\ \E a \in RowsOf(t), b \in RowsOf(t), c \in RowsOf(t) :
       /\ a.rank = 1 /\ a.vote_count = 3
       /\ b.rank = 2 /\ b.vote_count = 1
       /\ c.rank = 3 /\ c.vote_count = 1

C14_RanksArePermutation ==
  \A t \in Tasks :
    LET N == Len(OptionsOf(t)) IN
    /\ checkTaskCompletion(t).isReadyForConsensus =>
         LET results == calculateConsensus(t).results IN
         /\ Len(results) = N
         /\ {results[i].optionId : i \in 1..N} = OptionIds(t)
         /\ {results[i].rank : i \in 1..N} = 1..N
    /\ tasks[t].done =>
         /\ Cardinality(RowsOf(t)) = N
         /\ {r.option_id : r \in RowsOf(t)} = OptionIds(t)
         /\ {r.rank : r \in RowsOf(t)} = 1..N

\* C14 witness: a settled task whose result holds two options with one vote
\* each and two options with no vote, on ranks 1 to 4
C14_Witness ==
  /\ tasks[1].done
  /\ \E a \in RowsOf(1), b \in RowsOf(1), c \in RowsOf(1), d \in RowsOf(1) :
       /\ a.rank = 1 /\ b.rank = 2 /\ c.rank = 3 /\ d.rank = 4
       /\ a.vote_count = 1 /\ b.vote_count = 1
       /\ c.vote_count = 0 /\ d.vote_count = 0

\* C15: the results of calculateConsensus come in descending vote count,
\* and of two options with equal counts the one created first (lower id)
\* comes first, whatever the arrival order of the submissions.
C15_StableByCreationOrder ==
  \A t \in Tasks :
    checkTaskCompletion(t).isReadyForConsensus =>
      LET results == calculateConsensus(t).results IN
      \A i \in 1..Len(results), j \in 1..Len(results) :
        i < j =>
          \/ results[i].count > results[j].count
          \/ /\ results[i].count = results[j].count
             /\ results[i].optionId < results[j].optionId

\* C15 witness: option 3 got its vote before option 2, both have one vote,
\* and the settled result ranks option 2 before option 3
C15_Witness ==
  /\ tasks[1].done
  /\ \E i \in 1..Len(submissions), j \in 1..Len(submissions) :
       i < j /\ submissions[i].option_id = 3 /\ submissions[j].option_id = 2
  /\ \E a \in RowsOf(1), b \in RowsOf(1) :
       /\ a.option_id = 2 /\ b.option_id = 3
       /\ a.vote_count = 1 /\ b.vote_count = 1
       /\ a.rank < b.rank

\* ------------------------------------- ranking and rewards, end to end
\* One image task of review count RankReviewCount with RankOptions options
\* and RankWorkers workers; the Payout Dispatcher and the store do not fail
RankReviewCount == 5
RankOptions == 3
RankWorkers == 4

InitRank ==
  /\ tasks = <<[NewTask(1) EXCEPT !.reviewCount = RankReviewCount,
                                  !.amount = RankReviewCount,
                                  !.options = [i \in 1..RankOptions |-> i]]>>
  /\ submissions = <<>>
  /\ taskResults = <<>>
  /\ optionResults = {}
  /\ workers = [w \in 1..RankWorkers |-> NewWorker(w)]
  /\ withdrawals = <<>>
  /\ dispatched = <<[w \in 1..RankWorkers |-> <<>>]>>
  /\ procs = EmptyBag
  /\ now = 0
  /\ faults = MaxFaults

\* POST /submission and the settlement it starts
NextRank ==
  \/ \E w \in Workers, t \in Tasks : \E o \in OptionIds(t) : SubmitValidate(w, t, o)
  \/ \E me \in Running : SubmitTx(me)
  \/ \E me \in Running : SubmitCheck(me)
  \/ \E me \in Running : SettleConsensus(me)
  \/ \E me \in Running : SettleTxMark(me)
  \/ \E me \in Running : SettleTxReward(me)
  \/ \E me \in Running : SettleTxCommit(me)
  \/ \E me \in Running : Finish(me)

SpecRank == InitRank /\ [][NextRank]_vars

\* the number of Submissions of task t for option o, and the position of the
\* first of them in arrival order
VotesFor(t, o) ==
  Cardinality({i \in 1..Len(submissions) :
                 submissions[i].task_id = t /\ submissions[i].option_id = o})

FirstVoteFor(t, o) ==
  CHOOSE i \in 1..Len(submissions) :
    /\ submissions[i].task_id = t /\ submissions[i].option_id = o
    /\ \A j \in 1..(i - 1) :
         ~(submissions[j].task_id = t /\ submissions[j].option_id = o)

\* the four submissions of task t are split 2/1/1 over its three options
SplitTwoOneOne(t) ==
  /\ Len(SubmissionsOf(submissions, t)) = 4
  /\ \E a \in OptionIds(t) :
       /\ VotesFor(t, a) = 2
       /\ \A b \in OptionIds(t) \ {a} : VotesFor(t, b) = 1

\* the rank the stored Result of task t gives option o
RankOf(t, o) == (CHOOSE r \in RowsOf(t) : r.option_id = o).rank

\* C16 as the specification states it: once the four submissions split
\* 2/1/1 are in and the requests have ended the task is settled; the 2-vote
\* option has rank 1, the 1-vote option that got its vote first has rank 2
\* and the other rank 3; the two rank-1 voters hold 100, the rank-2 voter 70
\* and the rank-3 voter 40.
C16_EndToEndFirstVoteOrder ==
  \A t \in Tasks :
    SplitTwoOneOne(t) =>
      /\ (\A q \in Running : q.pc = "done") => tasks[t].done
      /\ tasks[t].done =>
           /\ \A a \in OptionIds(t) : VotesFor(t, a) = 2 => RankOf(t, a) = 1
           /\ \A b \in OptionIds(t), c \in OptionIds(t) :
                (/\ VotesFor(t, b) = 1 /\ VotesFor(t, c) = 1
                 /\ FirstVoteFor(t, b) < FirstVoteFor(t, c))
                  => RankOf(t, b) = 2 /\ RankOf(t, c) = 3
           /\ \A w \in Workers :
                workers[w].total_earned
                  = ExpectedReward(tasks[t].serviceType)[
                      RankOf(t, submissions[CHOOSE i \in SubmissionsBy(t, w) : TRUE].option_id)]

\* ---------------------------------- submissions racing the settlement
\* The task of the main specification with one worker more than the
\* threshold needs; the Payout Dispatcher and the store do not fail
LateWorkers == 3

InitLate ==
  /\ tasks = [t \in 1..NumTasks |-> NewTask(t)]
  /\ submissions = <<>>
  /\ taskResults = <<>>
  /\ optionResults = {}
  /\ workers = [w \in 1..LateWorkers |-> NewWorker(w)]
  /\ withdrawals = <<>>
  /\ dispatched = [t \in 1..NumTasks |-> [w \in 1..LateWorkers |-> <<>>]]
  /\ procs = EmptyBag
  /\ now = 0
  /\ faults = MaxFaults

SpecLate == InitLate /\ [][NextRank]_vars

\* C17 as the specification states it: the vote counts of a task's Result
\* add up to the number of Submissions stored for the task.
C17_VoteCountsCoverSubmissions ==
  \A t \in Tasks :
    HasResult(t) =>
      SumOver(RowsOf(t), [r \in RowsOf(t) |-> r.vote_count])
        = Cardinality({i \in 1..Len(submissions) : submissions[i].task_id = t})

\* C18: a payout request gets to its transaction only with an amount that is
\* positive and at most the pending balance it read; a request rejected with
\* InsufficientBalance is answered in the step it arrives, which writes no
\* row (no Withdrawal, no balance) and calls no sendReward.
C18_InsufficientBalanceRejected ==
  [][/\ \A q \in BagToSet(procs') :
          (Arrived(q) /\ q.pc = "payTx") =>
             q.amount > 0 /\ q.amount <= workers[q.worker].pending_amount
     /\ Arrived(Response("InsufficientBalance", 0)) =>
          /\ store' = store
          /\ dispatched' = dispatched
          /\ \E w \in Workers : workers[w].pending_amount < MaxPayoutInput]_vars

\* C18 witness: a request for 1 of a worker without funds was rejected, and
\* the store holds no Withdrawal and no locked amount
C18_Witness ==
  /\ \E q \in Running : q.pc = "done" /\ q.resp = "InsufficientBalance"
  /\ withdrawals = <<>>
  /\ \A w \in Workers : workers[w].pending_amount = 0 /\ workers[w].locked_amount = 0

\* ------------------------------------------------- the sweep over tasks
\* SweepTasks open tasks, task t with the submissions of the first n[t]
\* workers for its first option; one fault may happen
SweepTasks == 3

\* the Submissions of tasks t.. in a store where task u has n[u] of them
RECURSIVE SweepSubmissions(_, _)
SweepSubmissions(n, t) ==
  IF t > SweepTasks THEN <<>>
  ELSE [w \in 1..n[t] |->
          [task_id |-> t, worker_id |-> w, option_id |-> NewTask(t).options[1],
           amount |-> TaskAmount \div ReviewCount]]
       \o SweepSubmissions(n, t + 1)

InitSweep ==
  /\ tasks = [t \in 1..SweepTasks |-> NewTask(t)]
  /\ \E n \in [1..SweepTasks -> 0..NumWorkers] :
       /\ submissions = SweepSubmissions(n, 1)
       /\ workers = [w \in 1..NumWorkers |->
                       [NewWorker(w) EXCEPT !.pending_amount =
                          (TaskAmount \div ReviewCount)
                            * Cardinality({t \in 1..SweepTasks : w <= n[t]})]]
  /\ taskResults = <<>>
  /\ optionResults = {}
  /\ withdrawals = <<>>
  /\ dispatched = [t \in 1..SweepTasks |-> [w \in 1..NumWorkers |-> <<>>]]
  /\ procs = EmptyBag
  /\ now = 0
  /\ faults = 0

\* the scheduler's processReadyTasks and the settlements it starts
NextSweep ==
  \/ SweepStart
  \/ \E me \in Running : SweepNext(me)
  \/ \E me \in Running : SettleConsensus(me)
  \/ \E me \in Running : SettleTxMark(me)
  \/ \E me \in Running : SettleTxReward(me)
  \/ \E me \in Running : SettleTxThrow(me)
  \/ \E me \in Running : SettleTxCommit(me)
  \/ \E me \in Running : Finish(me)

SpecSweep == InitSweep /\ [][NextSweep]_vars

\* task t has 80% of its review count in submissions
ReadyTask(t) == 5 * Len(SubmissionsOf(submissions, t)) >= 4 * tasks[t].reviewCount

\* C19: a sweep starts with exactly the open tasks at or over the threshold
\* and calls processTaskCompletion on each in turn; when a call ends, failed
\* or not, the sweep goes on with the tasks it has left; a task below the
\* threshold is never touched; and once a sweep has ended every ready task
\* is settled but those whose settlement met a fault.
C19_SweepSettlesEachReadyTask ==
  /\ [](/\ \A t \in Tasks :
             ~ReadyTask(t) =>
               /\ ~tasks[t].done /\ ~HasResult(t)
               /\ \A w \in Workers : dispatched[t][w] = <<>>
               /\ \A q \in Running : ~(InSettlement(q) /\ q.task = t)
        /\ (\E q \in Running : q.pc = "done" /\ q.resp = "swept") =>
             Cardinality({t \in Tasks : ReadyTask(t) /\ ~tasks[t].done}) <= faults)
  /\ [][/\ \A q \in BagToSet(procs') :
             (/\ Arrived(q) /\ q.pc = "sweepLoop"
              /\ BagCardinality(procs') > BagCardinality(procs)) =>
                /\ SeqToSet(q.todo) = {t \in Tasks : ReadyTask(t) /\ ~tasks[t].done}
                /\ Len(q.todo) = Cardinality(SeqToSet(q.todo))
        /\ \A me \in Running :
             (Moved(me) /\ me.caller = "sweep") =>
                \/ /\ me.pc = "sweepLoop" /\ me.todo = <<>>
                   /\ Arrived(Response("swept", 0))
                \/ /\ me.pc = "sweepLoop" /\ me.todo # <<>>
                   /\ \E q \in BagToSet(procs') :
                        /\ Arrived(q) /\ q.pc = "consensus"
                        /\ q.task = Head(me.todo) /\ q.todo = Tail(me.todo)
                \/ /\ InSettlement(me)
                   /\ \E q \in BagToSet(procs') :
                        /\ Arrived(q) /\ q.todo = me.todo /\ q.caller = "sweep"
                        /\ \/ InSettlement(q) /\ q.task = me.task
                           \/ q.pc = "sweepLoop"]_vars

\* C19 witness: a sweep over three ready tasks has ended; the settlement of
\* task 2 failed at the Payout Dispatcher and tasks 1 and 3 are settled
C19_Witness ==
  /\ \E q \in Running : q.pc = "done" /\ q.resp = "swept"
  /\ \A t \in Tasks : ReadyTask(t)
  /\ tasks[1].done /\ ~tasks[2].done /\ tasks[3].done
  /\ \E w \in Workers : FailedDispatches(2, w) # {}
  /\ Cardinality(Running) = 1

\* C20: a processTaskCompletion call on a task below the threshold ends at
\* calculateConsensus with the not-ready error, whoever called it, in a step
\* that writes nothing and sends nothing; and a task below the threshold is
\* open, without Result, and no call is inside its transaction.
C20_NotReadyChangesNothing ==
  /\ [](\A t \in Tasks :
          ~ReadyTask(t) =>
            /\ ~tasks[t].done /\ tasks[t].completedAt = 0
            /\ ~HasResult(t) /\ RowsOf(t) = {}
            /\ \A q \in Running : q.task = t => q.pc \notin {"txMark", "txRewards"})
  /\ [][\A me \in Running :
          (Moved(me) /\ me.pc = "consensus" /\ ~ReadyTask(me.task)) =>
             /\ Arrived(SettleEnd(me, "NotReady"))
             /\ store' = store
             /\ dispatched' = dispatched]_vars

\* C20 witness: the admin route's call on the task with one of two
\* submissions has ended with the error; the task is open, has no Result,
\* and the only credit is that of the submission
C20_Witness ==
  /\ \E q \in Running : q.pc = "done" /\ q.resp = "NotReady" /\ q.task = 1
  /\ Len(submissions) = 1 /\ ~ReadyTask(1)
  /\ ~tasks[1].done /\ taskResults = <<>> /\ optionResults = {}
  /\ \A w \in Workers : workers[w].pending_amount = SubmissionCredits(w)
                        /\ workers[w].total_earned = 0

\* C21: no step of a submission, a settlement, a payout request or its
\* rollback lowers a worker's total_earned.
C21_TotalEarnedNeverDecreases ==
  [][\A w \in Workers : workers'[w].total_earned >= workers[w].total_earned]_vars

\* C21 witness: a worker who earned a reward has had a payout request rolled
\* back and still has the reward in total_earned
C21_Witness ==
  \E w \in Workers, i \in 1..Len(withdrawals) :
    /\ withdrawals[i].workerId = w /\ withdrawals[i].status = "Failure"
    /\ workers[w].total_earned = RewardIn(1, w)
    /\ workers[w].total_earned > 0
    /\ \A q \in Running : q.wid # i

\* ---------------------------------------------------------------------
\* Task creation: POST /upload and the Pricing Oracle's getServicePrice.
\* At most MaxUploads uploads get past the validation in a behaviour.
MaxUploads == 2
\* upload.array('files', 5) and limits.files: at most 5 files per request
MaxFilesPerUpload == 5

\* The price table of getServicePrice; the prices come from the environment
\* (..._PRICE) and are taken positive
priceMap ==
  [MARKETING_IMAGES |-> (200 :> 2000 @@ 500 :> 4500),
   YOUTUBE_THUMBNAILS |-> (200 :> 2000 @@ 500 :> 4500),
   VIDEOS |-> (100 :> 3000 @@ 300 :> 8000)]

\* SolanaService.getServicePrice(serviceType, reviewCount):
\* priceMap[serviceType]?.[reviewCount] || 0
getServicePrice(serviceType, reviewCount) ==
  IF serviceType \in DOMAIN priceMap
  THEN IF reviewCount \in DOMAIN priceMap[serviceType]
       THEN priceMap[serviceType][reviewCount]
       ELSE 0
  ELSE 0

\* The request bodies tried: a category outside the table, and tiers that
\* exist for some categories only
ServiceTypeInputs == {"MARKETING_IMAGES", "VIDEOS", "PODCASTS"}
ReviewCountInputs == {100, 200, 500}
FileCountInputs == 0..(MaxFilesPerUpload + 1)

\* the upload requests past the validation and not yet answered
UploadsInFlight == CopiesOf({q \in Running : q.caller = "upload" /\ q.pc # "done"})

\* the id the next Option row gets (autoincrement)
NextOptionId ==
  1 + SumOver(DOMAIN tasks, [t \in DOMAIN tasks |-> Len(tasks[t].options)])

\* lines 188-207: multer refuses more than 5 files; no file is a 400; the
\* price of the combination is looked up and a falsy price is a 400
UploadRequest(serviceType, reviewCount, files) ==
  /\ Len(tasks) + UploadsInFlight < MaxUploads
  /\ LET expectedAmount == getServicePrice(serviceType, reviewCount)
     IN IF files > MaxFilesPerUpload
        THEN Start([Response("500:LIMIT_FILE_COUNT", 0) EXCEPT !.caller = "upload"])
        ELSE IF files = 0
        THEN Start([Response("400:NoFiles", 0) EXCEPT !.caller = "upload"])
        ELSE IF expectedAmount = 0
        THEN Start([Response("400:InvalidCombination", 0) EXCEPT
                      !.caller = "upload", !.serviceType = serviceType,
                      !.reviewCount = reviewCount, !.amount = expectedAmount])
        ELSE Start([Blank EXCEPT !.pc = "verify", !.caller = "upload",
                                 !.serviceType = serviceType,
                                 !.reviewCount = reviewCount, !.files = files,
                                 !.amount = expectedAmount])
  /\ UNCHANGED <<store, dispatched, now, faults>>

\* lines 209-218: verifyPayment; an invalid payment is a 400
UploadVerify(me, paymentValid) ==
  /\ me.pc = "verify"
  /\ IF paymentValid
     THEN Step(me, [me EXCEPT !.pc = "store"])
     ELSE Step(me, [Response("400:Payment", 0) EXCEPT !.caller = "upload"])
  /\ UNCHANGED <<store, dispatched, now, faults>>

\* lines 221-259: an upload of a file to IPFS or Cloudinary throws, and the
\* handler answers 500 (306-313)
UploadFail(me) ==
  /\ me.pc = "store"
  /\ faults < MaxFaults
  /\ faults' = faults + 1
  /\ Step(me, [Response("500:UploadFailed", 0) EXCEPT !.caller = "upload"])
  /\ UNCHANGED <<store, dispatched, now>>

\* lines 262-289: the transaction creating the Task and one Option per
\* uploaded file
UploadStore(me) ==
  /\ me.pc = "store"
  /\ tasks' = Append(tasks,
       [done |-> FALSE, completedAt |-> 0, reviewCount |-> me.reviewCount,
        amount |-> me.amount, serviceType |-> me.serviceType,
        options |-> [i \in 1..me.files |-> NextOptionId + i - 1]])
  /\ Step(me, [Response("ok", Len(tasks) + 1) EXCEPT !.caller = "upload"])
  /\ UNCHANGED <<submissions, taskResults, optionResults, workers, withdrawals,
                 dispatched, now, faults>>

InitUpload ==
  /\ tasks = <<>>
  /\ submissions = <<>>
  /\ taskResults = <<>>
  /\ optionResults = {}
  /\ workers = [w \in 1..NumWorkers |-> NewWorker(w)]
  /\ withdrawals = <<>>
  /\ dispatched = <<>>
  /\ procs = EmptyBag
  /\ now = 0
  /\ faults = 0

NextUpload ==
  \/ \E serviceType \in ServiceTypeInputs, reviewCount \in ReviewCountInputs,
        files \in FileCountInputs : UploadRequest(serviceType, reviewCount, files)
  \/ \E me \in Running, paymentValid \in BOOLEAN : UploadVerify(me, paymentValid)
  \/ \E me \in Running : UploadFail(me)
  \/ \E me \in Running : UploadStore(me)
  \/ \E me \in Running : Finish(me)

SpecUpload == InitUpload /\ [][NextUpload]_vars

\* whether the price table has the combination
InPriceTable(serviceType, reviewCount) ==
  /\ serviceType \in DOMAIN priceMap
  /\ reviewCount \in DOMAIN priceMap[serviceType]

\* C22: an upload whose (category, review tier) is not in the price table
\* never gets a price of 0 back from getServicePrice: the lookup is refused
\* with InvalidPricingTier.
C22_InvalidTierRaises ==
  \A q \in Running :
    (q.caller = "upload" /\ q.serviceType # "none"
       /\ ~InPriceTable(q.serviceType, q.reviewCount))
    => (q.amount # 0 /\ q.resp = "InvalidPricingTier")

\* C24: every task created has between 2 and 5 options, and no step changes
\* the options of a task that exists.
C24_TwoToFiveOptionsFixed ==
  /\ [](\A t \in Tasks : Len(OptionsOf(t)) \in 2..5)
  /\ [][\A t \in Tasks : t \in DOMAIN tasks' /\ tasks'[t].options = tasks[t].options]_vars

\* ---------------------------------------------------------------------
\* The Pricing Oracle's calculateWorkerReward on its own: calls with any
\* category and any rank up to RankMargin below 1 and above 3.
RankMargin == 3
RankInputs == (1 - RankMargin)..(3 + RankMargin)
CategoryInputs == {"MARKETING_IMAGES", "YOUTUBE_THUMBNAILS", "VIDEOS", "PODCASTS"}

\* a call of calculateWorkerReward(serviceType, rank) and what it returned
RewardCall(serviceType, rank) ==
  /\ Start([Response("returned", 0) EXCEPT
              !.caller = "reward", !.serviceType = serviceType, !.k = rank,
              !.amount = calculateWorkerReward(serviceType, rank)])
  /\ UNCHANGED <<store, dispatched, now, faults>>

NextReward ==
  \/ \E serviceType \in CategoryInputs, rank \in RankInputs :
       RewardCall(serviceType, rank)
  \/ \E me \in Running : Finish(me)

SpecReward == Init /\ [][NextReward]_vars

RewardCalls == {q \in Running : q.caller = "reward"}

\* C23: calculateWorkerReward returns the category's base reward for rank 1,
\* floor(base * second-place fraction) for rank 2, floor(base * third-place
\* fraction) for rank 3 and 0 for every rank below 1 or above 3; over the
\* ranks from 1 upwards a higher rank never gets more than a lower one.
C23_RewardByRank ==
  /\ \A q \in RewardCalls :
       q.amount = IF q.k \in 1..3 THEN ExpectedReward(q.serviceType)[q.k] ELSE 0
  /\ \A q, r \in RewardCalls :
       (q.serviceType = r.serviceType /\ 1 <= q.k /\ q.k <= r.k)
       => q.amount >= r.amount

\* C23 witness: a call with rank 3 and a call with rank 4 of the video
\* category have returned, the first 60 and the second 0
C23_Witness ==
  \E q, r \in RewardCalls :
    /\ q.serviceType = "VIDEOS" /\ r.serviceType = "VIDEOS"
    /\ q.k = 3 /\ q.amount = 60
    /\ r.k = 4 /\ r.amount = 0

\* ---------------------------------------------------------------------
\* Progress of the settlement: submissions, the settlement they start, the
\* periodic sweep and the faults of a settlement, under the scheduling of
\* the server: the scheduler fires the sweep again and again whatever else
\* is in progress (cron, every 5 minutes), every handler that can take its
\* next step takes it, and a transaction waiting for the row lock of a task
\* gets it once the holder has ended.
NextLive ==
  \/ \E w \in Workers, t \in Tasks : \E o \in OptionIds(t) : SubmitValidate(w, t, o)
  \/ \E me \in Running : SubmitTx(me)
  \/ \E me \in Running : SubmitCheck(me)
  \/ SweepStart
  \/ \E me \in Running : SweepNext(me)
  \/ \E me \in Running : SettleConsensus(me)
  \/ \E me \in Running : SettleTxMark(me)
  \/ \E me \in Running : SettleTxReward(me)
  \/ \E me \in Running : SettleTxThrow(me)
  \/ \E me \in Running : SettleTxCommit(me)
  \/ \E me \in Running : Finish(me)

\* a handler in progress takes its next step
RequestStep ==
  \E me \in Running :
    \/ SubmitTx(me) \/ SubmitCheck(me) \/ SweepNext(me) \/ SettleConsensus(me)
    \/ SettleTxMark(me) \/ SettleTxReward(me) \/ SettleTxCommit(me) \/ Finish(me)

FairLive == SF_vars(SweepStart) /\ WF_vars(RequestStep)

SpecLive == Init /\ [][NextLive]_vars /\ FairLive

\* per task: open, with submissions at 80% of the review count or more
ReadyOpen == [t \in Tasks |-> ~tasks[t].done /\ ReadyTask(t)]

NewSubmissionCredit(w) ==
  LET new == {i \in (Len(submissions) + 1)..Len(submissions') :
                submissions'[i].worker_id = w}
  IN SumOver(new, [i \in new |-> submissions'[i].amount])

\* the rewards of w in the consensus of the settlement the step commits
NewSettlementCredit(w) ==
  IF Len(taskResults') > Len(taskResults)
  THEN LET me == CHOOSE q \in Running : Moved(q) /\ q.pc = "txRewards"
           rewards == me.consensus.workerRewards
           mine == {i \in 1..Len(rewards) : rewards[i].workerId = w}
       IN SumOver(mine, [i \in mine |-> rewards[i].amount])
  ELSE 0

\* the Withdrawal rows the step creates for w: the amount that leaves pending
NewWithdrawalDebit(w) ==
  LET new == {i \in (Len(withdrawals) + 1)..Len(withdrawals') :
                withdrawals'[i].workerId = w}
  IN SumOver(new, [i \in new |-> withdrawals'[i].amount])

\* the Withdrawal rows of w the step sets to Failure: the amount refunded
NewRefund(w) ==
  LET back == {i \in 1..Len(withdrawals) :
                 /\ withdrawals[i].workerId = w
                 /\ withdrawals[i].status # "Failure"
                 /\ withdrawals'[i].status = "Failure"}
  IN SumOver(back, [i \in back |-> withdrawals[i].amount])

\* C26: every step changes a worker's pending balance by exactly the deltas
\* of what the step commits for that worker (submission credit, settlement
\* rewards, withdrawal debit, refund), whatever other requests are in
\* progress; so the balance is always the initial balance plus the deltas of
\* all committed operations.
C26_NoLostBalanceUpdate ==
  [][\A w \in Workers :
       workers'[w].pending_amount
         = workers[w].pending_amount + NewSubmissionCredit(w)
             + NewSettlementCredit(w) - NewWithdrawalDebit(w) + NewRefund(w)]_vars

\* C26 witness: a payout request of a worker is in progress, holding the
\* amount it took from pending, while the settlement has credited the
\* worker's reward on top of the submission credit
C26_Witness ==
  \E w \in Workers, q \in Running :
    /\ q.pc \in {"paySend", "payMark", "payUnlock", "payRevert"} /\ q.worker = w
    /\ tasks[1].done /\ workers[w].total_earned > 0
    /\ SubmissionCredits(w) > 0
    /\ workers[w].pending_amount
         = SubmissionCredits(w) + workers[w].total_earned - q.amount

\* ---------------------------------------------------------------------
\* C27: no step creates a Submission for a task that is done at that moment:
\* a submission request whose transaction runs after the settlement of its
\* task committed is rejected and stores nothing.
C27_NoSubmissionForDoneTask ==
  [][\A i \in (Len(submissions) + 1)..Len(submissions') :
       ~tasks[submissions'[i].task_id].done]_vars

\* C28: a task never has more Submissions than its review count, and the
\* per-submission credits of the task never add up to more than its amount.
C28_SubmissionsWithinReviewCount ==
  \A t \in Tasks :
    LET mine == {i \in 1..Len(submissions) : submissions[i].task_id = t}
    IN /\ Cardinality(mine) <= tasks[t].reviewCount
       /\ SumOver(mine, [i \in mine |-> submissions[i].amount]) <= tasks[t].amount

\* ---------------------------------------------------------------------
\* the payout requests of worker w that are in progress
PayoutsInProgress(w) ==
  {q \in Running : q.worker = w
                   /\ q.pc \in {"payTx", "paySend", "payMark", "payUnlock", "payRevert"}}

\* the amounts of the Withdrawals of worker w with status Success
SuccessAmount(w) ==
  LET paid == {i \in 1..Len(withdrawals) :
                 withdrawals[i].workerId = w /\ withdrawals[i].status = "Success"}
  IN SumOver(paid, [i \in paid |-> withdrawals[i].amount])

\* C29: whenever a worker has no payout request in progress, the worker's
\* locked balance is 0 and the pending balance is the submission credits
\* plus the settlement rewards (total_earned) minus the amounts of the
\* worker's Withdrawals in Success.
C29_FundsConserved ==
  \A w \in Workers :
    PayoutsInProgress(w) = {} =>
      /\ workers[w].locked_amount = 0
      /\ workers[w].pending_amount
           = SubmissionCredits(w) + workers[w].total_earned - SuccessAmount(w)

\* C29 witness: a worker with a submission credit and a settlement reward
\* has a Withdrawal in Success and one in Failure, no payout request is in
\* progress, and pending is what is left after the successful one
C29_Witness ==
  \E w \in Workers :
    /\ PayoutsInProgress(w) = {}
    /\ workers[w].total_earned > 0 /\ SubmissionCredits(w) > 0
    /\ \E i, j \in 1..Len(withdrawals) :
         /\ withdrawals[i].workerId = w /\ withdrawals[i].status = "Success"
         /\ withdrawals[j].workerId = w /\ withdrawals[j].status = "Failure"
    /\ workers[w].locked_amount = 0
    /\ workers[w].pending_amount
         = SubmissionCredits(w) + workers[w].total_earned - SuccessAmount(w)

\* ---------------------------------------------------------------------
\* POST /submission with any request body: SubmitTasks tasks, and requests
\* naming each of them, a task that does not exist, each option of any task
\* and an option that does not exist.
SubmitTasks == 2
TaskIdInputs == 1..(SubmitTasks + 1)
OptionIdInputs == 1..(SubmitTasks * OptionsPerTask + 1)

InitSubmit ==
  /\ tasks = [t \in 1..SubmitTasks |-> NewTask(t)]
  /\ submissions = <<>>
  /\ taskResults = <<>>
  /\ optionResults = {}
  /\ workers = [w \in 1..NumWorkers |-> NewWorker(w)]
  /\ withdrawals = <<>>
  /\ dispatched = [t \in 1..SubmitTasks |-> [w \in 1..NumWorkers |-> <<>>]]
  /\ procs = EmptyBag
  /\ now = 0
  /\ faults = MaxFaults

NextSubmit ==
  \/ \E w \in Workers, t \in TaskIdInputs, o \in OptionIdInputs : SubmitValidate(w, t, o)
  \/ \E me \in Running : SubmitTx(me)
  \/ \E me \in Running : SubmitCheck(me)
  \/ \E me \in Running : SettleConsensus(me)
  \/ \E me \in Running : SettleTxMark(me)
  \/ \E me \in Running : SettleTxReward(me)
  \/ \E me \in Running : SettleTxCommit(me)
  \/ \E me \in Running : Finish(me)

SpecSubmit == InitSubmit /\ [][NextSubmit]_vars

\* the step is the arrival of a request
RequestArrives == BagCardinality(procs') > BagCardinality(procs)

\* C30: a submission request gets past the validation only when it names the
\* task getNextTask returns for the worker at that moment (the oldest open
\* task the worker has no Submission for) and an option of that task; any
\* other request is answered 400 and leaves the store as it is.  So every
\* Submission stored is for an option of its task, and for a task whose
\* older tasks the worker had submitted for before, or that are done.
C30_OnlyNextTaskAccepted ==
  /\ [](\A i \in 1..Len(submissions) :
          /\ submissions[i].option_id \in OptionIds(submissions[i].task_id)
          /\ \A u \in 1..(submissions[i].task_id - 1) :
               \/ tasks[u].done
               \/ \E j \in 1..(i - 1) :
                    /\ submissions[j].worker_id = submissions[i].worker_id
                    /\ submissions[j].task_id = u)
  /\ [][/\ RequestArrives =>
             /\ store' = store
             /\ \A q \in BagToSet(procs') :
                  (Arrived(q) /\ q.pc = "subTx") =>
                     /\ q.task # 0 /\ q.task = getNextTask(q.worker)
                     /\ q.option \in OptionIds(q.task)
        /\ \A w \in Workers, t \in TaskIdInputs, o \in OptionIdInputs :
             (SubmitValidate(w, t, o)
                /\ ~(getNextTask(w) = t /\ o \in OptionIds(t))) =>
                Arrived(Response("400", t))]_vars

\* C30 witness: a worker has submitted for task 1 and then for task 2, and a
\* request naming task 2 by a worker whose next task is task 1 was answered
\* 400
C30_Witness ==
  /\ \E w \in Workers, i, j \in 1..Len(submissions) :
       /\ i < j
       /\ submissions[i].worker_id = w /\ submissions[i].task_id = 1
       /\ submissions[j].worker_id = w /\ submissions[j].task_id = 2
  /\ \E q \in Running, w \in Workers :
       q.pc = "done" /\ q.resp = "400" /\ q.task = 2 /\ getNextTask(w) = 1

====
